---- MODULE Spec2Model ----
(***************************************************************************)
(* A model of the two utilities of duaragha/full_tracker:                  *)
(*                                                                         *)
(*   src/services/audible-service/app.py   the token-gated proxy service   *)
(*   src/scripts/tuya-test-local.py        the smart-plug diagnostic script*)
(*                                                                         *)
(* The proxy service keeps no state between requests, so its state here is *)
(* the start-up configuration plus the last request handled, the reply the *)
(* upstream gave to it, the response, and the calls the handler made.      *)
(* Third-party libraries (flask, audible, cryptography, tinytuya) are the  *)
(* environment: their replies are inputs chosen with \E.                   *)
(***************************************************************************)
EXTENDS Integers, Sequences, FiniteSets, TLC

VARIABLES
    API_SECRET,   \* app.py:56, read once at start-up
    req,          \* the request being answered
    up,           \* the upstream's reply to that request (NotAsked if none)
    resp,         \* the HTTP response
    calls,        \* decrypt/encrypt/audible calls made while handling it, in order
    sent,         \* the credentials handed to the audible library
    divided,      \* per shaped item: was the percentage division evaluated
    held,         \* the caller's copy of the encrypted tokens /api/auth returned
    issued,       \* the tokens the upstream issued at that authentication
    law,          \* cipher round trips applied to caller-held values
    run,          \* the diagnostic script's last run
    config,       \* the cipher key and the port, set at start-up
    threads,      \* the requests the threaded server has in flight
    DEVICE_CONFIG \* the device info the diagnostic script is edited to hold

vars ==
    <<API_SECRET, req, up, resp, calls, sent, divided, held, issued, law, run,
      config, threads, DEVICE_CONFIG>>

svcVars == <<req, up, resp, calls, sent, divided>>

-----------------------------------------------------------------------------
(* Bounds of the exploration.                                              *)

MaxItems == 2       \* longest upstream item list
MaxStamp == 2       \* distinct (timestamp, IV) pairs the cipher may draw
MaxClock == 1       \* distinct clock readings
MaxThreads == 2     \* requests in flight at once

-----------------------------------------------------------------------------
(* Python values.                                                          *)

None == [kind |-> "none"]            \* the None a dict.get default yields
NoneTok == None                      \* the same, where a token is expected
EmptyDict == [k \in {} |-> 0]

\* dict.get(key, default)
Get(d, k, default) == IF k \in DOMAIN d THEN d[k] ELSE default

\* a JSON string of a body or of an upstream item; a Fernet token is what
\* encrypt makes, a string of another kind
Str(s) == [kind |-> "str", text |-> s]

\* JSON values whose type may vary: null is None, a string is Str(s), an
\* array is List(seq), a number is Number(n), true/false is Boolean(b); an
\* object is a dict
List(seq) == [kind |-> "list", items |-> seq]
Number(n) == [kind |-> "int", n |-> n]
Boolean(b) == [kind |-> "bool", b |-> b]
IsNone(v) == "kind" \in DOMAIN v /\ v["kind"] = "none"
IsDict(v) == "kind" \notin DOMAIN v

\* `not v`: None, '', 0, False, [] and {}; a token is a string that is not
\* empty
Falsy(v) ==
    IF IsDict(v) THEN DOMAIN v = {}
    ELSE CASE v["kind"] = "none" -> TRUE
           [] v["kind"] = "str" -> v["text"] = ""
           [] v["kind"] = "int" -> v["n"] = 0
           [] v["kind"] = "bool" -> ~v["b"]
           [] v["kind"] = "list" -> v["items"] = <<>>
           [] OTHER -> FALSE

\* `not v` for a token field
TokFalsy(t) == Falsy(t)

\* a field's value as the handler passes it on: the text of a string,
\* anything else as it is
TextOf(v) == IF ~IsDict(v) /\ v["kind"] = "str" THEN v["text"] ELSE v

Min(a, b) == IF a < b THEN a ELSE b

-----------------------------------------------------------------------------
(* Configuration, app.py:48-59.                                            *)

ENCRYPTION_KEY == "key-A"
ForeignKey == "key-B"        \* some other deployment's key
Secrets == {"", "s3cret"}    \* API_SECRET unset / set
PORT == 5000

\* app.py:65-69; the variants drop the comparison, and drop the fallback
\* for an unset secret
verify_api_secret_open(request_secret) == TRUE
verify_api_secret_closed(request_secret) == request_secret = API_SECRET
verify_api_secret(request_secret) ==
    IF API_SECRET = "" THEN TRUE
    ELSE request_secret = API_SECRET

-----------------------------------------------------------------------------
(* The token cipher, app.py:52 and 72-79.  cipher_suite is                 *)
(* cryptography.fernet.Fernet: a token carries the time of encryption and  *)
(* a freshly drawn IV beside the ciphertext, and is authenticated under    *)
(* the key; decrypt gives the plaintext back only for a token made under   *)
(* the same key and raises InvalidToken for anything else.  Every call of  *)
(* encrypt reads the clock and draws an IV of its own: `stamp` numbers the *)
(* (timestamp, IV) pair of the call, and two tokens of one plaintext are   *)
(* the same token exactly when their pairs are the same.  decrypt is       *)
(* called without ttl and never reads the timestamp.                       *)

Stamps == 1..MaxStamp
Clock == 0..MaxClock

\* the variant encrypts under a key other than the one decrypt uses
encrypt_other_key(text, stamp) ==
    [kind |-> "fernet", key |-> ForeignKey, stamp |-> stamp, pt |-> text]
encrypt(text, stamp) ==
    [kind |-> "fernet", key |-> ENCRYPTION_KEY, stamp |-> stamp, pt |-> text]

\* str(e) of cryptography's InvalidToken
InvalidToken == ""

\* str(e) of the AttributeError of v.encode() for a v that is no string
HasNoEncode(v) ==
    IF IsDict(v) THEN "'dict' object has no attribute 'encode'"
    ELSE CASE v["kind"] = "none" -> "'NoneType' object has no attribute 'encode'"
           [] v["kind"] = "int" -> "'int' object has no attribute 'encode'"
           [] v["kind"] = "bool" -> "'bool' object has no attribute 'encode'"
           [] v["kind"] = "list" -> "'list' object has no attribute 'encode'"

\* app.py:77-79, [ok, text, msg]: ok = FALSE stands for the exception, msg
\* for its str(e).  encrypted_text.encode() raises for what is no string;
\* Fernet raises InvalidToken for a string that is no token under the key
decrypt(encrypted_text) ==
    IF IsDict(encrypted_text) \/ encrypted_text["kind"] \notin {"str", "fernet"}
    THEN [ok |-> FALSE, text |-> "", msg |-> HasNoEncode(encrypted_text)]
    ELSE IF encrypted_text["kind"] = "fernet"
            /\ encrypted_text["key"] = ENCRYPTION_KEY
    THEN [ok |-> TRUE, text |-> encrypted_text["pt"], msg |-> ""]
    ELSE [ok |-> FALSE, text |-> "", msg |-> InvalidToken]

-----------------------------------------------------------------------------
(* Completion percentage, app.py:258-260 and 371-374:                      *)
(*     min(100, int((position_sec / (runtime_min * 60)) * 100))            *)
(* `/` is IEEE-754 double division, `* 100` a double multiplication and    *)
(* int() truncates toward zero.  With d = runtime_min * 60 and p >= 0:     *)
(* when d does not divide 100*p the exact value is at least 1/d away from  *)
(* an integer, far more than the rounding error, so the result is the      *)
(* exact floor.  When d divides 100*p the quotient p/d equals n/100 for    *)
(* the integer n = 100*p/d, the correctly rounded division gives the       *)
(* double nearest n/100, and the product with 100 is either n or the       *)
(* double just below n, and then int() gives n - 1 (0.29*100 =             *)
(* 28.999999999999996, 1.13*100 = 112.99999999999999).  For n in           *)
(* [2^k, 2^(k+1)): the division rounds n * 2^s / 100 to a 53-bit integer,  *)
(* s = 58 - k when n >= 1.5625 * 2^k, leaving the remainder                *)
(* r = (n * 2^s) mod 100; the quotient is rounded down when r < 50 and the *)
(* product then lies r / 2^s below n, which rounds to the double below n   *)
(* exactly when r > 32.  When n < 1.5625 * 2^k the bound is 64 and no      *)
(* remainder that rounds down passes it.                                   *)

RECURSIVE Log2(_)
Log2(n) == IF n < 2 THEN 0 ELSE 1 + Log2(n \div 2)

RECURSIVE Pow2(_)
Pow2(k) == IF k = 0 THEN 1 ELSE 2 * Pow2(k - 1)

RECURSIVE Pow2Mod100(_)
Pow2Mod100(k) == IF k = 0 THEN 1 ELSE (2 * Pow2Mod100(k - 1)) % 100

\* int((n / 100) * 100) = n - 1
FloatShortfall(n) ==
    /\ n > 0
    /\ 16 * n >= 25 * Pow2(Log2(n))
    /\ ((n % 100) * Pow2Mod100(58 - Log2(n))) % 100 \in 33..49

Abs(n) == IF n < 0 THEN -n ELSE n

\* int((p / d) * 100) for d > 0
TruncPercent(p, d) ==
    LET a == Abs(p)
        e == (100 * a) \div d
        t == IF (100 * a) % d = 0 /\ FloatShortfall(e) THEN e - 1 ELSE e
    IN  IF p < 0 THEN -t ELSE t

\* [pct, div]: div tells whether the division was evaluated; the variant
\* leaves out min(100, ...)
percent_unclamped(position_sec, runtime_min) ==
    IF runtime_min > 0
    THEN [pct |-> TruncPercent(position_sec, runtime_min * 60), div |-> TRUE]
    ELSE [pct |-> 0, div |-> FALSE]
percent_complete(position_sec, runtime_min) ==
    IF runtime_min > 0
    THEN [pct |-> Min(100, TruncPercent(position_sec, runtime_min * 60)), div |-> TRUE]
    ELSE [pct |-> 0, div |-> FALSE]

\* app.py:249-254: minutes, falling back to seconds // 60
library_runtime(product) ==
    LET runtime_min == Get(product, "runtime_length_min", 0)
    IN  IF runtime_min = 0
        THEN Get(product, "runtime_length_sec", 0) \div 60
        ELSE runtime_min

\* app.py:369: minutes only
progress_runtime(product) == Get(product, "runtime_length_min", 0)

Least(S) == CHOOSE i \in S : \A j \in S : i <= j

\* str(e) of what the shaping of an item may raise
NoneHasNoGet == "'NoneType' object has no attribute 'get'"
StrHasNoGet == "'str' object has no attribute 'get'"
NoneNotIterable == "'NoneType' object is not iterable"

\* str(e) of the AttributeError of v.get(...) for a v that is no dict
HasNoGet(v) ==
    CASE v["kind"] = "none" -> NoneHasNoGet
      [] v["kind"] = "str" -> StrHasNoGet
      [] v["kind"] = "list" -> "'list' object has no attribute 'get'"
      [] v["kind"] = "int" -> "'int' object has no attribute 'get'"
      [] v["kind"] = "bool" -> "'bool' object has no attribute 'get'"

\* str(e) of the TypeError of `for a in v` for a v that cannot be iterated
NotIterable(v) ==
    CASE v["kind"] = "none" -> NoneNotIterable
      [] v["kind"] = "int" -> "'int' object is not iterable"
      [] v["kind"] = "bool" -> "'bool' object is not iterable"

\* what an iteration gives when it raises
Raised(msg) == [ok |-> FALSE, msg |-> msg]

\* app.py:263-264, [a.get('name', '') for a in people].  A list gives its
\* entries, and the first that is no dict raises; a string gives its
\* characters and a dict its keys, strings both, so only the empty ones
\* pass; None, a number and a bool cannot be iterated
names_of(people) ==
    IF IsDict(people)
    THEN IF DOMAIN people = {} THEN [ok |-> TRUE, msg |-> "", names |-> <<>>]
         ELSE Raised(StrHasNoGet)
    ELSE IF people["kind"] = "str"
    THEN IF people["text"] = "" THEN [ok |-> TRUE, msg |-> "", names |-> <<>>]
         ELSE Raised(StrHasNoGet)
    ELSE IF people["kind"] # "list" THEN Raised(NotIterable(people))
    ELSE
    LET seq == people["items"]
        bad == {i \in 1..Len(seq) : ~IsDict(seq[i])}
    IN  IF bad # {}
        THEN Raised(HasNoGet(seq[Least(bad)]))
        ELSE [ok |-> TRUE, msg |-> "",
              names |-> [i \in 1..Len(seq) |-> Get(seq[i], "name", Str(""))]]

\* app.py:245-284, one iteration of the loop: the book, or the exception
\* that ends the whole request.  item.get raises at l.246 for an item that
\* is no dict, product.get at l.250, last_position.get at l.257, the two
\* comprehensions at l.263-264, product_images.get at l.278
library_book(item) ==
    IF ~IsDict(item) THEN Raised(HasNoGet(item))
    ELSE
    LET product == Get(item, "product", EmptyDict)
        last_position == Get(item, "last_position_heard", EmptyDict)
    IN
    IF ~IsDict(product) THEN Raised(HasNoGet(product))
    ELSE IF ~IsDict(last_position) THEN Raised(HasNoGet(last_position))
    ELSE
    LET runtime_min == library_runtime(product)
        position_sec == Get(last_position, "position_in_book_seconds", 0)
        pc == percent_complete(position_sec, runtime_min)
        authors == names_of(Get(product, "authors", List(<<>>)))
        narrators == names_of(Get(product, "narrators", List(<<>>)))
        product_images == Get(product, "product_images", EmptyDict)
    IN
    IF ~authors.ok THEN Raised(authors.msg)
    ELSE IF ~narrators.ok THEN Raised(narrators.msg)
    ELSE IF ~IsDict(product_images) THEN Raised(HasNoGet(product_images))
    ELSE [ok |-> TRUE, msg |-> "",
          book |-> [asin |-> Get(item, "asin", None),
                    title |-> Get(product, "title", Str("Unknown")),
                    authors |-> authors.names,
                    narrators |-> narrators.names,
                    runtime_length_min |-> runtime_min,
                    cover_url |-> Get(product_images, "500", Str("")),
                    release_date |-> Get(product, "release_date", None),
                    percent_complete |-> pc.pct,
                    position_seconds |-> position_sec,
                    is_finished |->
                        Get(last_position, "status", None) = Str("Finished"),
                    isbn |-> Get(product, "isbn", None)],
          div |-> pc.div]

\* app.py:365-382: item.get raises at l.366 for an item that is no dict,
\* product.get at l.369, last_position.get at l.370
progress_fields(asin, item) ==
    IF ~IsDict(item) THEN Raised(HasNoGet(item))
    ELSE
    LET product == Get(item, "product", EmptyDict)
        last_position == Get(item, "last_position_heard", EmptyDict)
    IN
    IF ~IsDict(product) THEN Raised(HasNoGet(product))
    ELSE IF ~IsDict(last_position) THEN Raised(HasNoGet(last_position))
    ELSE
    LET runtime_min == progress_runtime(product)
        position_sec == Get(last_position, "position_in_book_seconds", 0)
        pc == percent_complete(position_sec, runtime_min)
    IN  [ok |-> TRUE, msg |-> "",
         data |-> [asin |-> asin,
                   position_seconds |-> position_sec,
                   percent_complete |-> pc.pct,
                   is_finished |->
                       Get(last_position, "status", None) = Str("Finished")],
         div |-> pc.div]

-----------------------------------------------------------------------------
(* Requests, upstream replies and responses.                               *)

NoRequest == [endpoint |-> "none"]
NotAsked == [kind |-> "not_asked", msg |-> ""]
NoResponse == [status |-> 0, json |-> EmptyDict]
NoCredentials == EmptyDict
NoRandom == [s1 |-> 1, s2 |-> 1, s3 |-> 1, now |-> 0]

\* X-API-Secret absent, right, or wrong
HeaderSets == {EmptyDict} \cup {("X-API-Secret" :> v) : v \in {"s3cret", "wrong"}}

\* what request.get_json() meets: no JSON at all (it raises), JSON that is
\* not an object (data.get raises), or an object
BadBodies == {[kind |-> "invalid"], [kind |-> "null"]}
Object(d) == [kind |-> "object", data |-> d]

Optional(k, V) == {EmptyDict} \cup {(k :> v) : v \in V}

KnownLocales == {"us", "uk"}          \* the country codes audible.Locale knows
CountryParts == Optional("country_code", {"uk", "zz"})

AuthBodies ==
    BadBodies \cup
    {Object(e @@ p @@ c) : e \in Optional("email",
                                         {Str(""), Str("a@b.com"), Number(0),
                                          List(<<>>)}),
                           p \in Optional("password",
                                         {Str(""), Str("pw"), Str("None"),
                                          Boolean(FALSE), Number(5)}),
                           c \in CountryParts}

\* token fields as a caller may send them: empty, not a token at all, a
\* token made under this service's key, a token made under another key, no
\* string at all
ForeignToken ==
    [kind |-> "fernet", key |-> ForeignKey, stamp |-> 1, pt |-> "atk-0"]
AccessFieldValues ==
    {Str(""), Str("garbage"), encrypt("atk-0", 1), ForeignToken, Number(0),
     Number(5), List(<<>>)}
RefreshFieldValues ==
    {Str(""), Str("garbage"), encrypt("rtk-0", 2), ForeignToken,
     Boolean(FALSE), Boolean(TRUE), List(<<Str("x")>>)}

TokenBodies ==
    BadBodies \cup
    {Object(a @@ r @@ c) : a \in Optional("access_token", AccessFieldValues),
                           r \in Optional("refresh_token", RefreshFieldValues),
                           c \in CountryParts}

RefreshBodies ==
    BadBodies \cup
    {Object(r @@ c) : r \in Optional("refresh_token", RefreshFieldValues),
                      c \in CountryParts}

Asins == {"B00TEST"}

\* the exceptions the audible library raises: BadRequest (bad credentials),
\* UnauthorizedRequest (tokens expired or invalid), anything else
UpstreamErrors ==
    {[kind |-> "bad_request", msg |-> "bad credentials"],
     [kind |-> "unauthorized", msg |-> "token expired"],
     [kind |-> "error", msg |-> "network down"]}

\* what the upstream says of one library item; every key may be missing
RuntimeMinValues == {0, 1, 5, 600}
RuntimeSecValues == {59, 300}
PositionValues == {0, 87, 3000}
StatusValues == {Str("Finished"), Str("Started")}

Item(product, last_position) ==
    ("product" :> product) @@ ("last_position_heard" :> last_position)

Products ==
    {m @@ s : m \in Optional("runtime_length_min", RuntimeMinValues),
              s \in Optional("runtime_length_sec", RuntimeSecValues)}
Positions ==
    {p @@ s : p \in Optional("position_in_book_seconds", PositionValues),
              s \in Optional("status", StatusValues)}
Items == {Item(p, l) : p \in Products, l \in Positions}

\* items that state the rest of a book, well or badly formed
Described(product) ==
    ("asin" :> Str("B00TEST"))
        @@ Item(("runtime_length_min" :> 5) @@ product,
                ("position_in_book_seconds" :> 87))

Ann == ("name" :> Str("Ann"))

DescribedItems ==
    {Described(("title" :> Str("Dune")) @@ ("authors" :> List(<<Ann, EmptyDict>>))
                  @@ ("narrators" :> List(<<Ann>>))
                  @@ ("product_images" :> ("500" :> Str("http://img/500")))
                  @@ ("release_date" :> Str("1965-08-01"))
                  @@ ("isbn" :> Str("9780441172719"))),
     Described(("product_images" :> EmptyDict)),
     Described(("authors" :> Str(""))),
     Described(("narrators" :> EmptyDict))}

\* what may stand where the code expects an object
NotObjects == {None, Str("x"), List(<<>>), Number(3), Boolean(TRUE)}

\* items the shaping cannot read: the item itself, its product, its last
\* position or its images are no object, its authors or narrators are no
\* list of objects
MalformedItems ==
    NotObjects
      \cup {("product" :> v) : v \in NotObjects}
      \cup {("last_position_heard" :> v) : v \in NotObjects}
      \cup {Described(("product_images" :> v)) : v \in NotObjects}
      \cup {Described((k :> v)) :
               k \in {"authors", "narrators"},
               v \in {None, Number(3), Boolean(TRUE), Str("Ann"), Ann,
                      List(<<Str("Ann")>>), List(<<Ann, None>>),
                      List(<<List(<<Str("Ann")>>)>>), List(<<Number(3)>>)}}

\* the items longer lists are made of
ListItems ==
    {Item(p, l) :
        p \in {("runtime_length_min" :> 5), ("runtime_length_sec" :> 300)},
        l \in {("position_in_book_seconds" :> 87),
               ("position_in_book_seconds" :> 3000) @@ ("status" :> Str("Finished"))}}

\* lists in which an item that cannot be read stands beside others
MixedLists ==
    LET good == Item(("runtime_length_min" :> 5),
                     ("position_in_book_seconds" :> 87))
    IN  {<<good, ("product" :> None)>>, <<("product" :> None), good>>,
         <<("product" :> None), Str("x")>>, <<List(<<>>), ("product" :> None)>>}

\* every list of at most one item, the longer lists over ListItems, and
\* the mixed ones
ItemLists ==
    {<<>>} \cup {<<i>> : i \in Items \cup DescribedItems \cup MalformedItems}
           \cup UNION {[1..n -> ListItems] : n \in 2..MaxItems}
           \cup MixedLists

LibraryReplies ==
    UpstreamErrors \cup
    {[kind |-> "ok", json |-> j] : j \in Optional("items", ItemLists)}

AuthReplies ==
    UpstreamErrors \cup
    {[kind |-> "ok", access_token |-> "atk-1", refresh_token |-> "rtk-1",
      device_info |-> d] : d \in Optional("device_serial_number", {"SER1"})}

RefreshReplies ==
    UpstreamErrors \cup {[kind |-> "ok", access_token |-> "atk-2"]}

Randoms == [s1 : Stamps, s2 : Stamps, s3 : Stamps, now : Clock]

\* the tokens last one hour, app.py:165 and 447
TokenLifetime == 3600

\* what a handler did: its response, the calls it made, the credentials it
\* handed to the audible library, whether it consulted the upstream, and
\* per shaped item whether the division was evaluated
Result(response, made, creds, asked, divs) ==
    [resp |-> response, calls |-> made, sent |-> creds, asked |-> asked,
     div |-> divs]

Json(status, body) == [status |-> status, json |-> body]

Unauthorized ==
    Json(401, [success |-> FALSE, error |-> <<"Unauthorized">>])

Required(text) ==
    Json(400, [success |-> FALSE, error |-> <<text>>])

\* the variant hides the exception behind a fixed text
Unexpected_generic(prefix, msg) ==
    Json(500, [success |-> FALSE, error |-> <<"Internal server error">>])
\* the `except Exception` arm: f'<prefix>{str(e)}'
Unexpected(prefix, msg) ==
    Json(500, [success |-> FALSE, error |-> <<prefix, msg>>])

\* the `except audible.exceptions.UnauthorizedRequest` arm
TokenExpired ==
    Json(401, [success |-> FALSE, error |-> <<"Token expired">>,
               needs_auth |-> TRUE])

\* messages of the exceptions raised before the upstream is reached
GetJsonFailed == "415 Unsupported Media Type"
NoLocale == "can't find locale"

-----------------------------------------------------------------------------
(* The handlers.  Each is the whole function: the early returns are the    *)
(* nested IFs, the except arms are the Unexpected / TokenExpired results.  *)
(* `reply` is what the audible library does when the handler reaches it;   *)
(* `rnd` is what the cipher and the clock give when the handler encrypts.  *)

\* the f-string prefixes of the `except Exception` arms
AuthPrefix == "Authentication error: "
LibraryPrefix == "Library fetch error: "
ProgressPrefix == "Progress fetch error: "
RefreshPrefix == "Token refresh error: "

Stopped(response, made) == Result(response, made, NoCredentials, FALSE, <<>>)

\* app.py:467-469, the answer to a request no route matches
not_found(r) ==
    Stopped(Json(404, [success |-> FALSE, error |-> <<"Endpoint not found">>]),
            <<>>)

\* app.py:472-475, the answer when an exception escapes a view; every POST
\* view ends in `except Exception` and health_check calls nothing that
\* raises, so no request of the model is answered by it
internal_error(r) ==
    Stopped(Json(500, [success |-> FALSE,
                       error |-> <<"Internal server error">>]), <<>>)

\* app.py:101-108
health_check(r, rnd) ==
    Stopped(Json(200, [status |-> "healthy", service |-> "audible-integration",
                       timestamp |-> rnd.now]), <<>>)

\* app.py:111-188
authenticate(r, reply, rnd) ==
    LET api_secret == Get(r.headers, "X-API-Secret", "")
    IN
    IF ~verify_api_secret(api_secret) THEN Stopped(Unauthorized, <<>>)
    ELSE IF r.body.kind = "invalid"
    THEN Stopped(Unexpected(AuthPrefix, GetJsonFailed), <<>>)
    ELSE IF r.body.kind = "null"
    THEN Stopped(Unexpected(AuthPrefix, NoneHasNoGet), <<>>)
    ELSE
    LET data == r.body.data
        email == Get(data, "email", None)
        password == Get(data, "password", None)
        country_code == Get(data, "country_code", "us")
    IN
    IF Falsy(email) \/ Falsy(password)
    THEN Stopped(Required("Email and password are required"), <<>>)
    ELSE IF country_code \notin KnownLocales
    THEN Stopped(Unexpected(AuthPrefix, NoLocale), <<"Locale">>)
    ELSE
    LET creds == [username |-> TextOf(email), password |-> TextOf(password),
                  locale |-> country_code]
        made == <<"Locale", "from_login">>
    IN
    IF reply.kind = "bad_request"
    THEN Result(Required("Invalid email or password"), made, creds, TRUE, <<>>)
    ELSE IF reply.kind # "ok"
    THEN Result(Unexpected(AuthPrefix, reply.msg), made, creds, TRUE, <<>>)
    ELSE
    LET device_serial == Get(reply.device_info, "device_serial_number", "")
    IN  Result(Json(200,
                    [success |-> TRUE,
                     access_token |-> encrypt(reply.access_token, rnd.s1),
                     refresh_token |-> encrypt(reply.refresh_token, rnd.s2),
                     device_serial |-> encrypt(device_serial, rnd.s3),
                     expires_at |-> rnd.now + TokenLifetime]),
               made \o <<"encrypt", "encrypt", "encrypt">>, creds, TRUE, <<>>)

\* app.py:82-94, up to the first exception: [ok, msg, calls, creds]
create_audible_client(access_token, refresh_token, country_code) ==
    LET a == decrypt(access_token)
        b == decrypt(refresh_token)
    IN
    IF ~a.ok
    THEN [ok |-> FALSE, msg |-> a.msg, calls |-> <<"decrypt">>,
          creds |-> NoCredentials]
    ELSE IF ~b.ok
    THEN [ok |-> FALSE, msg |-> b.msg, calls |-> <<"decrypt", "decrypt">>,
          creds |-> NoCredentials]
    ELSE IF country_code \notin KnownLocales
    THEN [ok |-> FALSE, msg |-> NoLocale,
          calls |-> <<"decrypt", "decrypt", "Locale">>, creds |-> NoCredentials]
    ELSE [ok |-> TRUE, msg |-> "",
          calls |-> <<"decrypt", "decrypt", "Locale", "from_login_external",
                      "Client">>,
          creds |-> [access_token |-> a.text, refresh_token |-> b.text,
                     locale |-> country_code]]

\* app.py:191-305
get_library(r, reply) ==
    LET api_secret == Get(r.headers, "X-API-Secret", "")
    IN
    IF ~verify_api_secret(api_secret) THEN Stopped(Unauthorized, <<>>)
    ELSE IF r.body.kind = "invalid"
    THEN Stopped(Unexpected(LibraryPrefix, GetJsonFailed), <<>>)
    ELSE IF r.body.kind = "null"
    THEN Stopped(Unexpected(LibraryPrefix, NoneHasNoGet), <<>>)
    ELSE
    LET data == r.body.data
        access_token == Get(data, "access_token", NoneTok)
        refresh_token == Get(data, "refresh_token", NoneTok)
        country_code == Get(data, "country_code", "us")
    IN
    IF TokFalsy(access_token) \/ TokFalsy(refresh_token)
    THEN Stopped(Required("Tokens are required"), <<>>)
    ELSE
    LET client == create_audible_client(access_token, refresh_token, country_code)
        made == client.calls \o <<"client.get">>
    IN
    IF ~client.ok
    THEN Stopped(Unexpected(LibraryPrefix, client.msg), client.calls)
    ELSE IF reply.kind = "unauthorized"
    THEN Result(TokenExpired, made, client.creds, TRUE, <<>>)
    ELSE IF reply.kind # "ok"
    THEN Result(Unexpected(LibraryPrefix, reply.msg), made, client.creds, TRUE, <<>>)
    ELSE
    LET items == Get(reply.json, "items", <<>>)
        shaped == [i \in 1..Len(items) |-> library_book(items[i])]
        bad == {i \in 1..Len(items) : ~shaped[i].ok}
    IN
    IF bad # {}
    THEN Result(Unexpected(LibraryPrefix, shaped[Least(bad)].msg),
                made, client.creds, TRUE, <<>>)
    ELSE
    LET books == [i \in 1..Len(items) |-> shaped[i].book]
    IN  Result(Json(200, [success |-> TRUE, books |-> books,
                          total_count |-> Len(books)]),
               made, client.creds, TRUE,
               [i \in 1..Len(items) |-> shaped[i].div])

\* app.py:308-397
get_progress(r, reply) ==
    LET api_secret == Get(r.headers, "X-API-Secret", "")
    IN
    IF ~verify_api_secret(api_secret) THEN Stopped(Unauthorized, <<>>)
    ELSE IF r.body.kind = "invalid"
    THEN Stopped(Unexpected(ProgressPrefix, GetJsonFailed), <<>>)
    ELSE IF r.body.kind = "null"
    THEN Stopped(Unexpected(ProgressPrefix, NoneHasNoGet), <<>>)
    ELSE
    LET data == r.body.data
        access_token == Get(data, "access_token", NoneTok)
        refresh_token == Get(data, "refresh_token", NoneTok)
        country_code == Get(data, "country_code", "us")
    IN
    IF TokFalsy(access_token) \/ TokFalsy(refresh_token)
    THEN Stopped(Required("Tokens are required"), <<>>)
    ELSE
    LET client == create_audible_client(access_token, refresh_token, country_code)
        made == client.calls \o <<"client.get">>
    IN
    IF ~client.ok
    THEN Stopped(Unexpected(ProgressPrefix, client.msg), client.calls)
    ELSE IF reply.kind = "unauthorized"
    THEN Result(TokenExpired, made, client.creds, TRUE, <<>>)
    ELSE IF reply.kind # "ok"
    THEN Result(Unexpected(ProgressPrefix, reply.msg), made, client.creds, TRUE, <<>>)
    ELSE
    LET items == Get(reply.json, "items", <<>>)
    IN
    IF Len(items) = 0
    THEN Result(Json(404, [success |-> FALSE,
                           error |-> <<"Book not found in library">>]),
                made, client.creds, TRUE, <<>>)
    ELSE
    LET shaped == progress_fields(r.asin, items[1])
    IN
    IF ~shaped.ok
    THEN Result(Unexpected(ProgressPrefix, shaped.msg),
                made, client.creds, TRUE, <<>>)
    ELSE Result(Json(200, [success |-> TRUE] @@ shaped.data),
                made, client.creds, TRUE, <<shaped.div>>)

\* app.py:400-460
refresh_token(r, reply, rnd) ==
    LET api_secret == Get(r.headers, "X-API-Secret", "")
    IN
    IF ~verify_api_secret(api_secret) THEN Stopped(Unauthorized, <<>>)
    ELSE IF r.body.kind = "invalid"
    THEN Stopped(Unexpected(RefreshPrefix, GetJsonFailed), <<>>)
    ELSE IF r.body.kind = "null"
    THEN Stopped(Unexpected(RefreshPrefix, NoneHasNoGet), <<>>)
    ELSE
    LET data == r.body.data
        refresh_token_enc == Get(data, "refresh_token", NoneTok)
        country_code == Get(data, "country_code", "us")
    IN
    IF TokFalsy(refresh_token_enc)
    THEN Stopped(Required("Refresh token is required"), <<>>)
    ELSE
    LET b == decrypt(refresh_token_enc)
    IN
    IF ~b.ok
    THEN Stopped(Unexpected(RefreshPrefix, b.msg), <<"decrypt">>)
    ELSE IF country_code \notin KnownLocales
    THEN Stopped(Unexpected(RefreshPrefix, NoLocale), <<"decrypt", "Locale">>)
    ELSE
    LET creds == [access_token |-> "", refresh_token |-> b.text,
                  locale |-> country_code]
        made == <<"decrypt", "Locale", "from_login_external",
                  "refresh_access_token">>
    IN
    IF reply.kind # "ok"
    THEN Result(Unexpected(RefreshPrefix, reply.msg), made, creds, TRUE, <<>>)
    ELSE Result(Json(200,
                     [success |-> TRUE,
                      access_token |-> encrypt(reply.access_token, rnd.s1),
                      expires_at |-> rnd.now + TokenLifetime]),
                made \o <<"encrypt">>, creds, TRUE, <<>>)

-----------------------------------------------------------------------------
(* The proxy service answering arbitrary requests.                         *)

Request(endpoint, headers, body, asin) ==
    [endpoint |-> endpoint, headers |-> headers, body |-> body, asin |-> asin]

NoBody == [kind |-> "none"]
NoLaw == [op |-> "none"]
NoRun == [op |-> "none"]

StartUp == [ENCRYPTION_KEY |-> ENCRYPTION_KEY, PORT |-> PORT]

\* the threads of the server; an idle one holds nothing of any request
Threads == 1..MaxThreads
IdleThread ==
    [pc |-> "idle", req |-> NoRequest, local |-> NoRequest,
     client |-> NoCredentials, carried |-> NoCredentials, reply |-> NotAsked,
     rnd |-> NoRandom, resp |-> NoResponse]

Init ==
    /\ API_SECRET \in Secrets
    /\ req = NoRequest
    /\ up = NotAsked
    /\ resp = NoResponse
    /\ calls = <<>>
    /\ sent = NoCredentials
    /\ divided = <<>>
    /\ held = EmptyDict
    /\ issued = EmptyDict
    /\ law = NoLaw
    /\ run = NoRun
    /\ config = StartUp
    /\ threads = [t \in Threads |-> IdleThread]
    /\ DEVICE_CONFIG = [dev_id |-> "YOUR_DEVICE_ID_HERE"]

(* The threaded server: app.run serves each request on a thread of its     *)
(* own, so handlers run at the same time.  A handler reads the request     *)
(* through flask's `request`, which stands for the request of the thread   *)
(* that reads it, and reads API_SECRET and cipher_suite, which no handler  *)
(* assigns.  A handler that reaches the audible library waits for it while *)
(* other threads run.                                                      *)

\* flask's context-local `request` as thread t reads it
current_request(ts, t) == ts[t].req

\* the audible client a handler calls: the one it has just built and holds
\* in a local (`client`, app.py:230-233 and 349-352; `auth`, l.152 and
\* 438-445).  The variant keeps the client in a module attribute that the
\* first handler to build one sets and the others reuse
client_module_level(ts, t) ==
    ts[CHOOSE u \in DOMAIN ts :
          /\ ts[u].client # NoCredentials
          /\ \A v \in DOMAIN ts : ts[v].client # NoCredentials => u <= v].client
client_in_use(ts, t) == ts[t].client

\* the view function the route selects
Handle(r, reply, rnd) ==
    CASE r.endpoint = "health" -> health_check(r, rnd)
      [] r.endpoint = "auth" -> authenticate(r, reply, rnd)
      [] r.endpoint = "library" -> get_library(r, reply)
      [] r.endpoint = "progress" -> get_progress(r, reply)
      [] r.endpoint = "refresh-token" -> refresh_token(r, reply, rnd)


RightSecret == ("X-API-Secret" :> "s3cret")
WrongSecret == ("X-API-Secret" :> "wrong")
GoodTokens ==
    ("access_token" :> encrypt("atk-0", 1))
        @@ ("refresh_token" :> encrypt("rtk-0", 2))

\* the requests that arrive at the same time
ConcurrentRequests ==
    {Request("health", EmptyDict, NoBody, ""),
     Request("auth", RightSecret,
             Object(("email" :> Str("a@b.com")) @@ ("password" :> Str("pw"))), ""),
     Request("library", RightSecret, Object(GoodTokens), ""),
     Request("library", WrongSecret, Object(GoodTokens), ""),
     Request("library", RightSecret,
             Object(("access_token" :> ForeignToken)
                        @@ ("refresh_token" :> encrypt("rtk-0", 2))), ""),
     Request("progress", RightSecret, Object(GoodTokens), "B00TEST"),
     Request("refresh-token", RightSecret,
             Object(("refresh_token" :> encrypt("rtk-0", 2))), "")}

OneItem ==
    Item(("runtime_length_min" :> 5), ("position_in_book_seconds" :> 87))

\* what the audible library answers to the call of one request
ConcurrentReplies(endpoint) ==
    CASE endpoint = "auth" ->
            {[kind |-> "bad_request", msg |-> "bad credentials"],
             [kind |-> "ok", access_token |-> "atk-1", refresh_token |-> "rtk-1",
              device_info |-> ("device_serial_number" :> "SER1")]}
      [] endpoint \in {"library", "progress"} ->
            {[kind |-> "unauthorized", msg |-> "token expired"],
             [kind |-> "ok", json |-> ("items" :> <<>>)],
             [kind |-> "ok", json |-> ("items" :> <<OneItem>>)]}
      [] endpoint = "refresh-token" ->
            {[kind |-> "error", msg |-> "network down"],
             [kind |-> "ok", access_token |-> "atk-2"]}

\* what a handler draws while it runs: a fresh stamp in each encrypt call
\* and a clock reading, each from two values
StampPair == {1, 2}
ClockPair == {0, 1}
Draws(endpoint, reply) ==
    IF endpoint = "auth" /\ reply.kind = "ok"
    THEN [s1 : StampPair, s2 : StampPair, s3 : StampPair, now : ClockPair]
    ELSE IF endpoint = "refresh-token" /\ reply.kind = "ok"
    THEN {[NoRandom EXCEPT !.s1 = i, !.now = c] : i \in StampPair, c \in ClockPair}
    ELSE IF endpoint = "health"
    THEN {[NoRandom EXCEPT !.now = c] : c \in ClockPair}
    ELSE {NoRandom}

frame == <<API_SECRET, config, DEVICE_CONFIG, req, up, resp, calls, sent, divided, held,
           issued, law, run>>

\* the server hands an arriving request to a free thread
Accept(t) ==
    /\ threads[t].pc = "idle"
    /\ \E r \in ConcurrentRequests :
          threads' = [threads EXCEPT ![t] =
                         [IdleThread EXCEPT !.pc = "accepted", !.req = r]]
    /\ UNCHANGED frame

\* the handler runs from its first line: it reads the request and answers,
\* or builds its client from what the request carries and calls the
\* audible library with it
Begin(t) ==
    /\ threads[t].pc = "accepted"
    /\ LET r == current_request(threads, t)
           res == Handle(r, NotAsked, NoRandom)
           built == [threads EXCEPT ![t].client = res.sent]
       IN  IF res.asked
           THEN threads' = [built EXCEPT ![t].pc = "calling", ![t].local = r,
                                         ![t].carried = client_in_use(built, t)]
           ELSE \E rnd \in Draws(r.endpoint, NotAsked) :
                   threads' = [threads EXCEPT
                                  ![t].pc = "done",
                                  ![t].local = r,
                                  ![t].rnd = rnd,
                                  ![t].resp = Handle(r, NotAsked, rnd).resp]
    /\ UNCHANGED frame

\* the audible library returns or raises, and the handler runs to its end
Return(t) ==
    /\ threads[t].pc = "calling"
    /\ LET r == threads[t].local
       IN  \E reply \in ConcurrentReplies(r.endpoint) :
           \E rnd \in Draws(r.endpoint, reply) :
               threads' = [threads EXCEPT
                              ![t].pc = "done",
                              ![t].reply = reply,
                              ![t].rnd = rnd,
                              ![t].resp = Handle(r, reply, rnd).resp]
    /\ UNCHANGED frame

\* the response leaves and the thread keeps nothing
Send(t) ==
    /\ threads[t].pc = "done"
    /\ threads' = [threads EXCEPT ![t] = IdleThread]
    /\ UNCHANGED frame


\* the request under study.  The handler's result becomes its state when
\* it is answered
Answer(r, reply, res) ==
    /\ req' = r
    /\ up' = reply
    /\ resp' = res.resp
    /\ calls' = res.calls
    /\ sent' = res.sent
    /\ divided' = res.div

\* the handler has run up to its call to the audible library and waits in
\* it: no response yet, the calls so far made, the credentials handed over
Waiting == [kind |-> "waiting", msg |-> ""]

Reach(r, res) ==
    /\ req' = r
    /\ up' = Waiting
    /\ resp' = NoResponse
    /\ calls' = res.calls
    /\ sent' = res.sent
    /\ divided' = <<>>

\* the handler runs from its first line to its answer, or to its call to
\* the audible library; `dry` is the handler up to that call
TakeUp(r, dry) == IF dry.asked THEN Reach(r, dry) ELSE Answer(r, NotAsked, dry)

InCall(endpoint) == req.endpoint = endpoint /\ up.kind = "waiting"

\* the thread that serves another request beside the one under study
Others == {1}

rest == <<API_SECRET, config, DEVICE_CONFIG, threads, held, issued, law, run>>

HealthCheck ==
    /\ req = NoRequest
    /\ \E h \in HeaderSets, now \in Clock :
        Answer(Request("health", h, NoBody, ""), NotAsked,
               health_check(Request("health", h, NoBody, ""),
                            [NoRandom EXCEPT !.now = now]))
    /\ UNCHANGED rest

\* a path no route matches, or /api/progress/ without an asin
NotFound ==
    /\ req = NoRequest
    /\ \E h \in HeaderSets :
        Answer(Request("unknown", h, NoBody, ""), NotAsked,
               not_found(Request("unknown", h, NoBody, "")))
    /\ UNCHANGED rest

Authenticate ==
    /\ req = NoRequest
    /\ \E h \in HeaderSets, b \in AuthBodies :
        LET r == Request("auth", h, b, "")
        IN  TakeUp(r, authenticate(r, NotAsked, NoRandom))
    /\ UNCHANGED rest

\* from_login returns or raises and authenticate runs to its end
AuthenticateReturns ==
    /\ InCall("auth")
    /\ \E reply \in AuthReplies, rnd \in Randoms :
        Answer(req, reply, authenticate(req, reply, rnd))
    /\ UNCHANGED rest

GetLibrary ==
    /\ req = NoRequest
    /\ \E h \in HeaderSets, b \in TokenBodies :
        LET r == Request("library", h, b, "")
        IN  TakeUp(r, get_library(r, NotAsked))
    /\ UNCHANGED rest

\* client.get returns or raises and get_library runs to its end
GetLibraryReturns ==
    /\ InCall("library")
    /\ \E reply \in LibraryReplies :
        Answer(req, reply, get_library(req, reply))
    /\ UNCHANGED rest

GetProgress ==
    /\ req = NoRequest
    /\ \E h \in HeaderSets, b \in TokenBodies, asin \in Asins :
        LET r == Request("progress", h, b, asin)
        IN  TakeUp(r, get_progress(r, NotAsked))
    /\ UNCHANGED rest

\* client.get returns or raises and get_progress runs to its end
GetProgressReturns ==
    /\ InCall("progress")
    /\ \E reply \in LibraryReplies :
        Answer(req, reply, get_progress(req, reply))
    /\ UNCHANGED rest

RefreshToken ==
    /\ req = NoRequest
    /\ \E h \in HeaderSets, b \in RefreshBodies :
        LET r == Request("refresh-token", h, b, "")
        IN  TakeUp(r, refresh_token(r, NotAsked, NoRandom))
    /\ UNCHANGED rest

\* refresh_access_token returns or raises and refresh_token runs to its end
RefreshTokenReturns ==
    /\ InCall("refresh-token")
    /\ \E reply \in RefreshReplies, rnd \in Randoms :
        Answer(req, reply, refresh_token(req, reply, rnd))
    /\ UNCHANGED rest

\* the response goes out and nothing of the request is kept
Deliver ==
    /\ req # NoRequest
    /\ up.kind # "waiting"
    /\ req' = NoRequest
    /\ up' = NotAsked
    /\ resp' = NoResponse
    /\ calls' = <<>>
    /\ sent' = NoCredentials
    /\ divided' = <<>>
    /\ UNCHANGED rest

\* another request is served beside the one under study
Beside ==
    \E t \in Others :
        \/ Accept(t)
        \/ Begin(t)
        \/ Return(t)
        \/ Send(t)

Next ==
    \/ Deliver
    \/ HealthCheck
    \/ NotFound
    \/ Authenticate
    \/ AuthenticateReturns
    \/ GetLibrary
    \/ GetLibraryReturns
    \/ GetProgress
    \/ GetProgressReturns
    \/ RefreshToken
    \/ RefreshTokenReturns
    \/ Beside

Spec == Init /\ [][Next]_vars

-----------------------------------------------------------------------------
(* Vocabulary of the properties.                                           *)

PostEndpoints == {"auth", "library", "progress", "refresh-token"}
TokenEndpoints == {"library", "progress", "refresh-token"}

\* calls into the audible library
AudibleCalls ==
    {"Locale", "from_login", "from_login_external", "Client", "client.get",
     "refresh_access_token"}

Made(labels) == {i \in 1..Len(calls) : calls[i] \in labels}

NoDecryptNoUpstream ==
    /\ Made({"decrypt"} \cup AudibleCalls) = {}
    /\ up = NotAsked

\* the X-API-Secret the caller sent, '' when it sent none
SecretSent == Get(req.headers, "X-API-Secret", "")

\* the caller is turned away by the shared-secret check
TurnedAway == resp = Unauthorized

\* a required field of the request is absent or empty; a body that is not
\* a JSON object carries no field at all
LacksText(k) ==
    req.body.kind = "object" => Falsy(Get(req.body.data, k, None))

LacksToken(k) ==
    req.body.kind = "object" => TokFalsy(Get(req.body.data, k, NoneTok))

RequiredFieldMissing ==
    \/ req.endpoint = "auth" /\ (LacksText("email") \/ LacksText("password"))
    \/ req.endpoint \in {"library", "progress"}
         /\ (LacksToken("access_token") \/ LacksToken("refresh_token"))
    \/ req.endpoint = "refresh-token" /\ LacksToken("refresh_token")

\* an item's runtime in minutes as the upstream states it: the minutes when
\* present and non-zero, otherwise the seconds divided by 60, truncated
StatedRuntime(item) ==
    LET product == Get(item, "product", EmptyDict)
        m == Get(product, "runtime_length_min", 0)
    IN  IF m # 0 THEN m ELSE Get(product, "runtime_length_sec", 0) \div 60

StatedPosition(item) ==
    Get(Get(item, "last_position_heard", EmptyDict),
        "position_in_book_seconds", 0)

UpstreamItems == Get(up.json, "items", <<>>)

\* the request was answered 200 from an upstream item list
Shaped(endpoint) ==
    /\ req.endpoint = endpoint
    /\ up.kind = "ok"
    /\ resp.status = 200

-----------------------------------------------------------------------------
(* C1: with API_SECRET configured, a POST request whose X-API-Secret is    *)
(* absent or different is answered 401 Unauthorized with no decrypt call   *)
(* and no call to the audible library, whatever its body; GET /health is   *)
(* answered 200 whatever the header.                                       *)
C1_UnauthorizedCallerStopped ==
    /\ (req.endpoint \in PostEndpoints /\ API_SECRET # ""
            /\ SecretSent # API_SECRET)
         => (resp.status = 401 /\ TurnedAway /\ calls = <<>>
                /\ NoDecryptNoUpstream)
    /\ req.endpoint = "health" => resp.status = 200

C1_Witness ==
    /\ req.endpoint = "library"
    /\ API_SECRET = "s3cret"
    /\ SecretSent = "wrong"
    /\ req.body.kind = "object"
    /\ {"access_token", "refresh_token"} \subseteq DOMAIN req.body.data
    /\ decrypt(req.body.data["access_token"]).ok
    /\ decrypt(req.body.data["refresh_token"]).ok
    /\ resp.status = 401

(* C2: a request that passes the shared-secret check and lacks a required  *)
(* field is answered 400 with success=false before any decrypt call or     *)
(* audible call, whatever else the body contains or lacks.                 *)
C2_MissingFieldIs400 ==
    (req.endpoint \in PostEndpoints /\ ~TurnedAway /\ RequiredFieldMissing)
        => (resp.status = 400 /\ resp.json.success = FALSE
               /\ NoDecryptNoUpstream)

(* C3: with API_SECRET empty no request to any endpoint is answered        *)
(* 401 'Unauthorized', whatever X-API-Secret it carries.                   *)
C3_NoSecretAcceptsAll ==
    (req.endpoint # "none" /\ API_SECRET = "")
        => (~TurnedAway /\ Get(resp.json, "error", <<>>) # <<"Unauthorized">>)

C3_Witness ==
    /\ req.endpoint = "library"
    /\ API_SECRET = ""
    /\ SecretSent = "wrong"
    /\ resp.status = 200
    /\ Len(resp.json.books) > 0

(* C4: in get_library (per book) and in get_progress, percent_complete is  *)
(* in 0..100 for an item with non-negative position and positive runtime,  *)
(* and is 0, with the division not evaluated, for an item whose runtime    *)
(* is 0 or missing.                                                        *)
PercentInRange(item, pct, div) ==
    /\ (StatedPosition(item) >= 0 /\ StatedRuntime(item) > 0)
          => pct \in 0..100
    /\ StatedRuntime(item) = 0 => (pct = 0 /\ ~div)

C4_PercentBounded ==
    /\ Shaped("library") =>
          \A i \in 1..Len(UpstreamItems) :
              PercentInRange(UpstreamItems[i],
                             resp.json.books[i].percent_complete, divided[i])
    /\ Shaped("progress") =>
          PercentInRange(UpstreamItems[1], resp.json.percent_complete,
                         divided[1])

\* a position past the end of the book is clamped to 100
C4_Witness ==
    /\ Shaped("library")
    /\ Len(UpstreamItems) = 1
    /\ StatedRuntime(UpstreamItems[1]) = 1
    /\ StatedPosition(UpstreamItems[1]) = 87
    /\ resp.json.books[1].percent_complete = 100
    /\ divided[1]

(* C5: on /api/library, /api/progress/<asin> and /api/refresh-token, when  *)
(* the audible library reports the tokens unauthorized or expired the      *)
(* response is 401 with needs_auth=true.                                   *)
C5_ExpiredTokensNeedAuth ==
    (req.endpoint \in TokenEndpoints /\ up.kind = "unauthorized")
        => (resp.status = 401 /\ Get(resp.json, "needs_auth", FALSE))

(* C6: get_progress returns for an item the position_seconds,              *)
(* percent_complete and is_finished that get_library returns for the same  *)
(* item, and returns 404 exactly when the upstream returns no item.        *)
C6_ProgressShapesLikeLibrary ==
    (req.endpoint = "progress" /\ up.kind = "ok") =>
        LET lib == get_library([req EXCEPT !.endpoint = "library"], up).resp
        IN  /\ resp.status = 404 <=> Len(UpstreamItems) = 0
            /\ Len(UpstreamItems) > 0 =>
                 /\ resp.status = 200
                 /\ lib.status = 200
                 /\ resp.json.position_seconds
                      = lib.json.books[1].position_seconds
                 /\ resp.json.percent_complete
                      = lib.json.books[1].percent_complete
                 /\ resp.json.is_finished = lib.json.books[1].is_finished

(* C7: in get_library each book's runtime_length_min is the item's minutes *)
(* when present and non-zero and otherwise its seconds divided by 60,      *)
(* truncated; its percent_complete is                                      *)
(* min(100, floor(100 * position / (runtime_length_min * 60))) when the    *)
(* runtime is positive; books and total_count match the upstream items one *)
(* for one, in order.                                                      *)
C7_LibraryShaping ==
    Shaped("library") =>
        /\ Len(resp.json.books) = Len(UpstreamItems)
        /\ resp.json.total_count = Len(UpstreamItems)
        /\ \A i \in 1..Len(UpstreamItems) :
              LET book == resp.json.books[i]
                  rt == StatedRuntime(UpstreamItems[i])
                  pos == StatedPosition(UpstreamItems[i])
              IN  /\ book.runtime_length_min = rt
                  /\ book.position_seconds = pos
                  /\ rt > 0 => book.percent_complete
                                 = Min(100, (100 * pos) \div (rt * 60))

\* the tokens the endpoint decrypts, in the order it decrypts them
SubmittedTokens ==
    IF req.endpoint \in {"library", "progress"}
    THEN <<"access_token", "refresh_token">>
    ELSE IF req.endpoint = "refresh-token" THEN <<"refresh_token">>
    ELSE <<>>

\* a submitted token that the service's key does not open
Undecryptable ==
    /\ req.body.kind = "object"
    /\ \E i \in 1..Len(SubmittedTokens) :
          ~decrypt(Get(req.body.data, SubmittedTokens[i], NoneTok)).ok

UnknownLocale ==
    /\ req.body.kind = "object"
    /\ Get(req.body.data, "country_code", "us") \notin KnownLocales

\* a required field is missing from a body that is a JSON object
MissingInObject == req.body.kind = "object" /\ RequiredFieldMissing

ItemNotFound ==
    req.endpoint = "progress" /\ up.kind = "ok" /\ Len(UpstreamItems) = 0

\* the failures that have an answer of their own
ClassifiedFailure ==
    \/ TurnedAway
    \/ MissingInObject
    \/ up.kind \in {"bad_request", "unauthorized"}
    \/ ItemNotFound

\* The upstream's items as they arrive, read without the handlers: a JSON
\* value that is no object where the handler calls .get, or no array of
\* objects where it iterates, makes Python raise.

NoObject(v) == "kind" \in DOMAIN v

PythonType(v) ==
    CASE v["kind"] = "none" -> "NoneType"
      [] v["kind"] = "str" -> "str"
      [] v["kind"] = "list" -> "list"
      [] v["kind"] = "int" -> "int"
      [] v["kind"] = "bool" -> "bool"

\* str(e) of the AttributeError and of the TypeError, by type
AttributeErrorText ==
    [NoneType |-> "'NoneType' object has no attribute 'get'",
     str |-> "'str' object has no attribute 'get'",
     list |-> "'list' object has no attribute 'get'",
     int |-> "'int' object has no attribute 'get'",
     bool |-> "'bool' object has no attribute 'get'"]

TypeErrorText ==
    [NoneType |-> "'NoneType' object is not iterable",
     int |-> "'int' object is not iterable",
     bool |-> "'bool' object is not iterable"]

\* the messages .get raises on v
GetFaults(v) ==
    IF NoObject(v) THEN {AttributeErrorText[PythonType(v)]} ELSE {}

\* the messages [a.get('name', '') for a in v] raises: on an entry that is
\* no object, on a character of a string or a key of an object, or on v
\* itself when it cannot be iterated
PeopleFaults(v) ==
    IF ~NoObject(v)
    THEN IF DOMAIN v = {} THEN {} ELSE {AttributeErrorText["str"]}
    ELSE IF v["kind"] = "list"
    THEN UNION {GetFaults(v["items"][i]) : i \in 1..Len(v["items"])}
    ELSE IF v["kind"] = "str"
    THEN IF v["text"] = "" THEN {} ELSE {AttributeErrorText["str"]}
    ELSE {TypeErrorText[PythonType(v)]}

\* the messages the parts of an item raise that the endpoint reads: the
\* product and the last position on both, the authors, the narrators and
\* the images in the library
ItemFaults(item, endpoint) ==
    IF NoObject(item) THEN GetFaults(item)
    ELSE
    LET product == Get(item, "product", EmptyDict)
        heard == Get(item, "last_position_heard", EmptyDict)
    IN  GetFaults(product) \cup GetFaults(heard)
          \cup (IF endpoint = "library" /\ ~NoObject(product)
                THEN PeopleFaults(Get(product, "authors", List(<<>>)))
                       \cup PeopleFaults(Get(product, "narrators", List(<<>>)))
                       \cup GetFaults(Get(product, "product_images", EmptyDict))
                ELSE {})

\* str(e) of the AttributeError of .encode(), by type
EncodeErrorText ==
    [NoneType |-> "'NoneType' object has no attribute 'encode'",
     int |-> "'int' object has no attribute 'encode'",
     bool |-> "'bool' object has no attribute 'encode'",
     list |-> "'list' object has no attribute 'encode'",
     dict |-> "'dict' object has no attribute 'encode'"]

\* the message a submitted value raises that the key does not open: a
\* string is refused by the cipher, anything else cannot be encoded
TokenFault(v) ==
    IF ~NoObject(v) THEN EncodeErrorText["dict"]
    ELSE IF v["kind"] \in {"str", "fernet"} THEN ""
    ELSE EncodeErrorText[PythonType(v)]

\* the first of the submitted tokens, in the order they are decrypted,
\* that the key does not open
FirstUnopened ==
    LET v(i) == Get(req.body.data, SubmittedTokens[i], NoneTok)
    IN  v(Least({i \in 1..Len(SubmittedTokens) : ~decrypt(v(i)).ok}))

\* the items the endpoint reads: all of them, or the first
ItemsRead ==
    IF req.endpoint = "library" THEN 1..Len(UpstreamItems)
    ELSE IF req.endpoint = "progress" THEN 1..Min(1, Len(UpstreamItems))
    ELSE {}

Unreadable ==
    {i \in ItemsRead : ItemFaults(UpstreamItems[i], req.endpoint) # {}}

\* the upstream answered with an item the endpoint cannot read
UpstreamMalformed ==
    /\ req.endpoint \in {"library", "progress"}
    /\ up.kind = "ok"
    /\ Unreadable # {}

\* something went wrong while the request was handled
Failed ==
    \/ Get(resp.json, "success", TRUE) = FALSE
    \/ req.body.kind # "object"
    \/ Undecryptable
    \/ UnknownLocale
    \/ up.kind = "error"
    \/ UpstreamMalformed

\* str(e) of the exception that ends the request: of the first the handler
\* meets before the upstream answers, the upstream's own, or one the first
\* unreadable item raises
ExceptionMessages ==
    IF req.body.kind = "invalid" THEN {GetJsonFailed}
    ELSE IF req.body.kind = "null" THEN {AttributeErrorText["NoneType"]}
    ELSE IF Undecryptable THEN {TokenFault(FirstUnopened)}
    ELSE IF UnknownLocale THEN {NoLocale}
    ELSE IF UpstreamMalformed
    THEN ItemFaults(UpstreamItems[Least(Unreadable)], req.endpoint)
    ELSE IF up.kind = "error" THEN {up.msg}
    ELSE {}

PrefixOf(endpoint) ==
    CASE endpoint = "auth" -> AuthPrefix
      [] endpoint = "library" -> LibraryPrefix
      [] endpoint = "progress" -> ProgressPrefix
      [] endpoint = "refresh-token" -> RefreshPrefix

\* the calls that go out to the upstream
UpstreamRequests == {"from_login", "client.get", "refresh_access_token"}

(* C11: on a POST endpoint a failure other than an unauthorized caller, a  *)
(* missing required field, an upstream bad-credentials or unauthorized     *)
(* report or an item not found, a token that does not decrypt included, is *)
(* answered 500 with success=false and an error text made of the           *)
(* endpoint's prefix and the exception's message, and the upstream is      *)
(* called at most once.                                                    *)
C11_OtherFailuresAre500 ==
    (req.endpoint \in PostEndpoints /\ Failed /\ ~ClassifiedFailure)
        => /\ resp.status = 500
           /\ resp.status \notin {200, 400, 401, 404}
           /\ resp.json.success = FALSE
           /\ \E m \in ExceptionMessages :
                 resp.json.error = <<PrefixOf(req.endpoint), m>>
           /\ Cardinality(Made(UpstreamRequests)) <= 1

\* a token made under another key is sent to /api/library
C11_Witness ==
    /\ req.endpoint = "library"
    /\ ~TurnedAway
    /\ req.body.kind = "object"
    /\ Get(req.body.data, "access_token", NoneTok) = ForeignToken
    /\ calls = <<"decrypt">>
    /\ up = NotAsked
    /\ resp.status = 500
    /\ resp.json.error = <<LibraryPrefix, InvalidToken>>

-----------------------------------------------------------------------------
(* The caller's side of the token envelope: it authenticates, keeps the    *)
(* encrypted tokens of the response and sends them back unchanged; and the *)
(* cipher's round trips applied to the values it holds.                    *)

\* the caller knows the shared secret
CallerHeaders ==
    IF API_SECRET = "" THEN EmptyDict ELSE ("X-API-Secret" :> API_SECRET)

Credentials == Object(("email" :> Str("a@b.com")) @@ ("password" :> Str("pw")))

HeldTokens ==
    Object(("access_token" :> held.access_token)
             @@ ("refresh_token" :> held.refresh_token))

SessionReplies ==
    UpstreamErrors \cup
    {[kind |-> "ok", json |-> ("items" :> l)] :
        l \in {<<>>} \cup {<<i>> : i \in ListItems}}

Plaintexts == {"", "atk-1", "rtk-1", "SER1"}

Idle == req = NoRequest /\ law = NoLaw

\* POST /api/auth with the caller's credentials
Login ==
    /\ Idle
    /\ LET r == Request("auth", CallerHeaders, Credentials, "")
       IN  TakeUp(r, authenticate(r, NotAsked, NoRandom))
    /\ UNCHANGED rest

LoginReturns ==
    /\ InCall("auth")
    /\ \E reply \in AuthReplies, rnd \in Randoms :
        Answer(req, reply, authenticate(req, reply, rnd))
    /\ UNCHANGED rest

\* the caller receives the 200 of /api/auth and stores the encrypted
\* tokens; `issued` notes what the upstream had issued for them
Store ==
    /\ req.endpoint = "auth"
    /\ resp.status = 200
    /\ held' = [access_token |-> resp.json.access_token,
                refresh_token |-> resp.json.refresh_token,
                device_serial |-> resp.json.device_serial]
    /\ issued' = [access_token |-> up.access_token,
                  refresh_token |-> up.refresh_token,
                  device_serial |->
                      Get(up.device_info, "device_serial_number", "")]
    /\ req' = NoRequest
    /\ up' = NotAsked
    /\ resp' = NoResponse
    /\ calls' = <<>>
    /\ sent' = NoCredentials
    /\ divided' = <<>>
    /\ UNCHANGED <<API_SECRET, config, DEVICE_CONFIG, threads, law, run>>

ResubmitLibrary ==
    /\ Idle /\ held # EmptyDict
    /\ LET r == Request("library", CallerHeaders, HeldTokens, "")
       IN  TakeUp(r, get_library(r, NotAsked))
    /\ UNCHANGED rest

ResubmitLibraryReturns ==
    /\ InCall("library")
    /\ \E reply \in SessionReplies :
        Answer(req, reply, get_library(req, reply))
    /\ UNCHANGED rest

ResubmitProgress ==
    /\ Idle /\ held # EmptyDict
    /\ \E asin \in Asins :
        LET r == Request("progress", CallerHeaders, HeldTokens, asin)
        IN  TakeUp(r, get_progress(r, NotAsked))
    /\ UNCHANGED rest

ResubmitProgressReturns ==
    /\ InCall("progress")
    /\ \E reply \in SessionReplies :
        Answer(req, reply, get_progress(req, reply))
    /\ UNCHANGED rest

ResubmitRefresh ==
    /\ Idle /\ held # EmptyDict
    /\ LET r == Request("refresh-token", CallerHeaders,
                        Object("refresh_token" :> held.refresh_token), "")
       IN  TakeUp(r, refresh_token(r, NotAsked, NoRandom))
    /\ UNCHANGED rest

ResubmitRefreshReturns ==
    /\ InCall("refresh-token")
    /\ \E reply \in RefreshReplies, stamp \in Stamps, now \in Clock :
        Answer(req, reply,
               refresh_token(req, reply,
                             [NoRandom EXCEPT !.s1 = stamp, !.now = now]))
    /\ UNCHANGED rest

\* decrypt(encrypt(x))
EncryptThenDecrypt ==
    /\ Idle
    /\ \E x \in Plaintexts, stamp \in Stamps :
        law' = [op |-> "encrypt_decrypt", x |-> x,
                c |-> encrypt(x, stamp),
                y |-> decrypt(encrypt(x, stamp))]
    /\ UNCHANGED <<API_SECRET, config, DEVICE_CONFIG, threads, held, issued, run>>
    /\ UNCHANGED svcVars

\* encrypt(decrypt(c)) for a token c the service produced
DecryptThenEncrypt ==
    /\ Idle /\ held # EmptyDict
    /\ \E k \in DOMAIN held, stamp \in Stamps :
        law' = [op |-> "decrypt_encrypt", c |-> held[k],
                d |-> decrypt(held[k]),
                c2 |-> encrypt(decrypt(held[k]).text, stamp)]
    /\ UNCHANGED <<API_SECRET, config, DEVICE_CONFIG, threads, held, issued, run>>
    /\ UNCHANGED svcVars

Forget ==
    /\ law # NoLaw
    /\ law' = NoLaw
    /\ UNCHANGED <<API_SECRET, config, DEVICE_CONFIG, threads, held, issued, run>>
    /\ UNCHANGED svcVars

CipherNext ==
    \/ Login
    \/ LoginReturns
    \/ Store
    \/ ResubmitLibrary
    \/ ResubmitLibraryReturns
    \/ ResubmitProgress
    \/ ResubmitProgressReturns
    \/ ResubmitRefresh
    \/ ResubmitRefreshReturns
    \/ Deliver
    \/ Beside
    \/ EncryptThenDecrypt
    \/ DecryptThenEncrypt
    \/ Forget

CipherSpec == Init /\ [][CipherNext]_vars

(* C8, as stated: decrypt(encrypt(x)) = x for every token string x, and    *)
(* encrypt(decrypt(c)) = c for every token c produced under the key.       *)
C8_RoundTripBothWays ==
    /\ law.op = "encrypt_decrypt" => (law.y.ok /\ law.y.text = law.x)
    /\ law.op = "decrypt_encrypt" => law.c2 = law.c

(* C8, amended: decrypt(encrypt(x)) = x for every token string x;          *)
(* encrypt(decrypt(c)) is a token under the same key that decrypts to what *)
(* c decrypts to, and need not be c; a token returned by /api/auth and     *)
(* resubmitted unchanged to /api/library, /api/progress or                 *)
(* /api/refresh-token decrypts to exactly the token the upstream issued.   *)
C8_RoundTrip ==
    /\ law.op = "encrypt_decrypt" => (law.y.ok /\ law.y.text = law.x)
    /\ law.op = "decrypt_encrypt" =>
          (law.d.ok /\ decrypt(law.c2) = law.d /\ law.c2.key = law.c.key)
    /\ held # EmptyDict =>
          \A k \in DOMAIN held :
              decrypt(held[k]).ok /\ decrypt(held[k]).text = issued[k]
    /\ req.endpoint \in {"library", "progress"} =>
          (sent # NoCredentials
             /\ sent.access_token = issued.access_token
             /\ sent.refresh_token = issued.refresh_token)
    /\ req.endpoint = "refresh-token" =>
          (sent # NoCredentials /\ sent.refresh_token = issued.refresh_token)

\* a token of the auth response, re-encrypted, came out as another token
C8_Witness ==
    /\ law.op = "decrypt_encrypt"
    /\ law.c = held.access_token
    /\ law.c2 # law.c
    /\ decrypt(law.c2).text = issued.access_token

-----------------------------------------------------------------------------
(* The smart-plug diagnostic script, src/scripts/tuya-test-local.py.       *)
(* device.status(), turn_on() and turn_off() belong to tinytuya: what they *)
(* return or raise is an input.  Of the printed text the model keeps the   *)
(* lines that carry a message; banners, rules and blank lines are left out.*)

Bool(b) == [t |-> "bool", b |-> b]
Num(n) == [t |-> "num", n |-> n]
Text(x) == [t |-> "str", s |-> x]

\* truth value of a data point
Truthy(x) ==
    IF x.t = "bool" THEN x.b
    ELSE IF x.t = "num" THEN x.n # 0
    ELSE x.s # ""

\* what device.status() may do: raise, return None, return a dict
Raises == [kind |-> "raise", msg |-> "timed out"]
ReturnsNone == [kind |-> "none"]
Returns(d) == [kind |-> "dict", data |-> d]
Unused == [kind |-> "unused"]

\* `not data`, tuya-test-local.py:52
NoData(reply) == reply.kind = "none" \/ reply.data = EmptyDict

SocketTimeout == 5      \* tuya-test-local.py:45
SettleSeconds == 2      \* tuya-test-local.py:154

Call(name, arg) == [call |-> name, arg |-> arg]
Line(text, value) == [text |-> text, value |-> value]
Say(text) == [text |-> text, value |-> Text("")]

\* the data points of a status reply: the switch may come back as a bool,
\* a number or text, a reading as a number, a bool or text
SwitchParts ==
    Optional("1", {Bool(TRUE), Bool(FALSE), Num(1), Num(2), Text("on"),
                   Text("")})
Reading(k, n) == Optional(k, {Num(n), Bool(TRUE), Text("n/a")})

DpsDicts ==
    {s @@ c @@ p @@ v @@ e :
        s \in SwitchParts, c \in Reading("18", 120), p \in Reading("19", 255),
        v \in Reading("20", 1203), e \in Reading("101", 1234)}

\* tinytuya does not raise when it cannot reach the device: status()
\* returns its error report, a dict without 'dps'
NoDpsDict == ("Error" :> Text("Network Error")) @@ ("Err" :> Text("901"))

StatusReplies ==
    {Raises, ReturnsNone, Returns(EmptyDict), Returns(NoDpsDict)}
        \cup {Returns("dps" :> d) : d \in DpsDicts}

\* test_control reads data point '1' only
SwitchReplies ==
    {Raises, ReturnsNone, Returns(EmptyDict), Returns(NoDpsDict)}
        \cup {Returns("dps" :> d) : d \in SwitchParts}

\* tuya-test-local.py:77-88, in the order of the code: key, label, divisor
Readings ==
    <<[key |-> "18", label |-> "Current", per |-> 1000],
      [key |-> "19", label |-> "Power", per |-> 10],
      [key |-> "20", label |-> "Voltage", per |-> 10],
      [key |-> "101", label |-> "Total Energy", per |-> 100]>>

\* the first reading whose arithmetic raises TypeError, 0 if none does: a
\* string does not divide, a number does and so does a bool
FirstBad(dps) ==
    LET bad == {i \in 1..Len(Readings) :
                   Readings[i].key \in DOMAIN dps
                      /\ dps[Readings[i].key].t = "str"}
    IN  IF bad = {} THEN 0 ELSE CHOOSE i \in bad : \A j \in bad : i <= j

Troubleshooting ==
    <<Say("TROUBLESHOOTING:"), Say("1. Verify device info is correct"),
      Say("2. Check network connectivity"),
      Say("3. Ensure local key hasn't changed"),
      Say("4. Try rescanning: python -m tinytuya scan")>>

NoResponseHelp ==
    <<Say("No response from device"), Say("TROUBLESHOOTING:"),
      Say("1. Check device IP address is correct"),
      Say("2. Ensure device is powered on"),
      Say("3. Verify local key is correct"),
      Say("4. Check firewall isn't blocking ports 6666, 6667")>>

Working == <<Say("LOCAL CONTROL WORKING!"),
             Say("You can now integrate this into your app.")>>

\* the lines of `if 'dps' in data:` up to the first exception
ParsedLines(dps) ==
    LET bad == FirstBad(dps)
        switch == IF "1" \in DOMAIN dps
                  THEN <<Line("Switch State",
                              Text(IF Truthy(dps["1"]) THEN "ON" ELSE "OFF"))>>
                  ELSE <<>>
        shown == SelectSeq(Readings,
                    LAMBDA r : r.key \in DOMAIN dps /\ dps[r.key].t # "str"
                               /\ \A i \in 1..Len(Readings) :
                                     (bad # 0 /\ Readings[i] = r) => i < bad)
        lines == [i \in 1..Len(shown) |->
                     Line(shown[i].label, dps[shown[i].key])]
        stats == IF bad = 0 /\ {"19", "101"} \subseteq DOMAIN dps
                 THEN <<Say("Energy Stats:"),
                        Line("Instantaneous Power", dps["19"]),
                        Line("Total Energy Consumed", dps["101"]),
                        Line("Estimated Total Cost", dps["101"])>>
                 ELSE <<>>
    IN  <<Say("Parsed Data Points:")>> \o switch \o lines
            \o (IF bad = 0 THEN stats ELSE <<>>)

\* tuya-test-local.py:29-116: [ret, out, log, raised]; raised tells whether
\* an exception leaves the function
test_connection(reply) ==
    LET log == <<Call("set_socketTimeout", SocketTimeout), Call("status", 0)>>
        start == <<Say("Fetching device status...")>>
        failed(printed, msg) ==
            [ret |-> FALSE,
             out |-> printed \o <<Line("Error", Text(msg))>> \o Troubleshooting,
             log |-> log, raised |-> FALSE]
    IN
    IF reply.kind = "raise" THEN failed(start, reply.msg)
    ELSE IF NoData(reply)
    THEN [ret |-> FALSE, out |-> start \o NoResponseHelp, log |-> log,
          raised |-> FALSE]
    ELSE
    LET data == reply.data
        shown == start \o <<Say("Device responded!"),
                            Line("Raw Device Data", Text("json.dumps(data)"))>>
    IN
    IF "dps" \notin DOMAIN data
    THEN [ret |-> TRUE, out |-> shown \o Working, log |-> log, raised |-> FALSE]
    ELSE IF FirstBad(data["dps"]) # 0
    THEN failed(shown \o ParsedLines(data["dps"]),
                "unsupported operand type(s) for /: 'str' and 'int'")
    ELSE [ret |-> TRUE, out |-> shown \o ParsedLines(data["dps"]) \o Working,
          log |-> log, raised |-> FALSE]

\* status['dps'].get('1', False)
SwitchOf(reply) == Get(reply.data["dps"], "1", Bool(FALSE))

HasDps(reply) ==
    reply.kind = "dict" /\ ~NoData(reply) /\ "dps" \in DOMAIN reply.data

OnOff(b) == IF b THEN "ON" ELSE "OFF"

\* tuya-test-local.py:159, `actual_state == new_state` on the raw value: a
\* bool equals itself, 1 equals True and 0 equals False, nothing else does
SameState(actual_state, new_state) ==
    IF actual_state.t = "bool" THEN actual_state.b = new_state
    ELSE IF actual_state.t = "num"
    THEN actual_state.n = (IF new_state THEN 1 ELSE 0)
    ELSE FALSE

\* tuya-test-local.py:144, `new_state = not current_state`; the variant
\* forgets the negation
toggled_same(current_state) == current_state
toggled(current_state) == ~current_state

\* tuya-test-local.py:118-165: [out, log, used, raised]; `command` tells
\* whether turn_on/turn_off returns ("ok") or raises, `used` how many of
\* the three inputs the run consumed
test_control(first, command, second) ==
    LET start == <<Say("Attempting to toggle device...")>>
        failed(printed, made, msg, n) ==
            [out |-> printed \o <<Line("Control error", Text(msg))>>,
             log |-> made, used |-> n, raised |-> FALSE]
    IN
    IF first.kind = "raise"
    THEN failed(start, <<Call("status", 0)>>, first.msg, 1)
    ELSE IF ~HasDps(first)
    THEN [out |-> start \o <<Say("Cannot get device state")>>,
          log |-> <<Call("status", 0)>>, used |-> 1, raised |-> FALSE]
    ELSE
    LET current_state == Truthy(SwitchOf(first))
        new_state == toggled(current_state)
        told == start \o <<Line("Current state", Text(OnOff(current_state))),
                           Line("Turning", Text(OnOff(new_state)))>>
        sent1 == <<Call("status", 0),
                   Call(IF new_state THEN "turn_on" ELSE "turn_off", 0)>>
        sent2 == sent1 \o <<Call("sleep", SettleSeconds), Call("status", 0)>>
    IN
    IF command = "raise" THEN failed(told, sent1, "timed out", 2)
    ELSE IF second.kind = "raise" THEN failed(told, sent2, second.msg, 3)
    ELSE IF ~HasDps(second)
    THEN [out |-> told, log |-> sent2, used |-> 3, raised |-> FALSE]
    ELSE IF SameState(SwitchOf(second), new_state)
    THEN [out |-> told \o <<Line("Successfully turned", Text(OnOff(new_state)))>>,
          log |-> sent2, used |-> 3, raised |-> FALSE]
    ELSE [out |-> told \o <<Say("State may not have changed")>>,
          log |-> sent2, used |-> 3, raised |-> FALSE]

Placeholder == "YOUR_DEVICE_ID_HERE"

tuyaRest == <<API_SECRET, config, threads, held, issued, law>>

\* the script is edited to hold the device's id, address and local key
EditConfig ==
    /\ run = NoRun
    /\ DEVICE_CONFIG.dev_id = Placeholder
    /\ DEVICE_CONFIG' = [dev_id |-> "bf0123456789"]
    /\ UNCHANGED run
    /\ UNCHANGED tuyaRest
    /\ UNCHANGED svcVars

\* tuya-test-local.py:173-180: the script run as it is prints what to edit
\* and exits with status 1; no device is made and none is asked
Refuse ==
    /\ run = NoRun
    /\ DEVICE_CONFIG.dev_id = Placeholder
    /\ run' = [op |-> "refused",
               result |-> [exit |-> 1, log |-> <<>>,
                           out |-> <<Say("ERROR: Please edit this script and add your device info!"),
                                     Say("You need to set:"),
                                     Say("- dev_id (device ID from extraction)"),
                                     Say("- address (device IP address)"),
                                     Say("- local_key (local key from extraction)"),
                                     Say("- version (usually 3.3)")>>]]
    /\ UNCHANGED DEVICE_CONFIG
    /\ UNCHANGED tuyaRest
    /\ UNCHANGED svcVars

\* tuya-test-local.py:180, sys.exit(1)
Exit ==
    /\ run.op = "refused"
    /\ run' = NoRun
    /\ UNCHANGED DEVICE_CONFIG
    /\ UNCHANGED tuyaRest
    /\ UNCHANGED svcVars

\* tuya-test-local.py:183
TestConnection ==
    /\ run = NoRun
    /\ DEVICE_CONFIG.dev_id # Placeholder
    /\ \E reply \in StatusReplies :
        run' = [op |-> "test_connection", reply |-> reply,
                result |-> test_connection(reply)]
    /\ UNCHANGED DEVICE_CONFIG
    /\ UNCHANGED tuyaRest
    /\ UNCHANGED svcVars

\* tuya-test-local.py:183-187: only after a successful test_connection and
\* a 'y' at the prompt
TestControl ==
    /\ run.op = "test_connection"
    /\ run.result.ret
    /\ \E first \in SwitchReplies, command \in {"ok", "raise"},
          second \in SwitchReplies :
        LET res == test_control(first, command, second)
        IN  run' = [op |-> "test_control", first |-> first,
                    command |-> IF res.used >= 2 THEN command ELSE "unused",
                    second |-> IF res.used >= 3 THEN second ELSE Unused,
                    result |-> res]
    /\ UNCHANGED DEVICE_CONFIG
    /\ UNCHANGED tuyaRest
    /\ UNCHANGED svcVars

\* tuya-test-local.py:189-191, 'Test complete!'
Finish ==
    /\ run.op \in {"test_connection", "test_control"}
    /\ run' = NoRun
    /\ UNCHANGED DEVICE_CONFIG
    /\ UNCHANGED tuyaRest
    /\ UNCHANGED svcVars

TuyaNext ==
    \/ EditConfig
    \/ Refuse
    \/ Exit
    \/ TestConnection
    \/ TestControl
    \/ Finish

TuyaSpec == Init /\ [][TuyaNext]_vars

-----------------------------------------------------------------------------
(* Vocabulary of the script's properties, stated on the raw replies.       *)

\* the reply is a dict with a 'dps' entry
CarriesDps(reply) == reply.kind = "dict" /\ "dps" \in DOMAIN reply.data

\* the switch state (data point '1') the reply shows; absent reads as off
ShowsOn(reply) ==
    "1" \in DOMAIN reply.data["dps"] /\ Truthy(reply.data["dps"]["1"])

CallNames(log) == [i \in 1..Len(log) |-> log[i].call]

Commands(log) == {i \in 1..Len(log) : log[i].call \in {"turn_on", "turn_off"}}

StatusCalls(log) == {i \in 1..Len(log) : log[i].call = "status"}

Printed(out, text) == \E i \in 1..Len(out) : out[i].text = text

\* the line test_connection prints for a data point
LabelOf(k) ==
    CASE k = "1" -> "Switch State"
      [] k = "18" -> "Current"
      [] k = "19" -> "Power"
      [] k = "20" -> "Voltage"
      [] k = "101" -> "Total Energy"

DataPoints == {"1", "18", "19", "20", "101"}

\* a reading that is text cannot be scaled
DecodeFails(reply) ==
    /\ CarriesDps(reply)
    /\ \E k \in DataPoints \ {"1"} :
          k \in DOMAIN reply.data["dps"] /\ reply.data["dps"][k].t = "str"

(* C9: every run of test_control reads the status first; if that read      *)
(* returns nothing or has no 'dps' no command is sent; otherwise exactly    *)
(* one command is sent, turn_on if the negation of the observed switch     *)
(* state is ON and turn_off otherwise, then the settle interval is waited, *)
(* the status is read again, and success is reported only if the re-read   *)
(* switch state equals the intended state.                                 *)
C9_ToggleOrder ==
    run.op = "test_control" =>
        LET log == run.result.log
            names == CallNames(log)
        IN  /\ Len(log) >= 1 /\ names[1] = "status"
            /\ ~run.result.raised
            /\ ~CarriesDps(run.first) => (Commands(log) = {} /\ Len(log) = 1)
            /\ CarriesDps(run.first) =>
                 LET intended == ~ShowsOn(run.first)
                     command == IF intended THEN "turn_on" ELSE "turn_off"
                 IN  /\ Commands(log) = {2}
                     /\ names[2] = command
                     /\ run.command = "ok" =>
                          /\ names = <<"status", command, "sleep", "status">>
                          /\ log[3].arg = SettleSeconds
                     /\ run.command = "raise" => Len(log) = 2
                     /\ Printed(run.result.out, "Successfully turned") =>
                          /\ run.command = "ok"
                          /\ CarriesDps(run.second)
                          /\ ShowsOn(run.second) = intended

C9_Witness ==
    /\ run.op = "test_control"
    /\ CarriesDps(run.first) /\ ShowsOn(run.first)
    /\ CallNames(run.result.log) = <<"status", "turn_off", "sleep", "status">>
    /\ CarriesDps(run.second) /\ ~ShowsOn(run.second)
    /\ Printed(run.result.out, "Successfully turned")

\* the reply is the device library's report of a transport error
ErrorReport(reply) == reply.kind = "dict" /\ "Error" \in DOMAIN reply.data

(* C10: test_connection never propagates an exception of the status        *)
(* request or of decoding the reply and returns a boolean: False when the  *)
(* device returns no data or a transport or decode error occurs, raised or *)
(* reported in the reply, True otherwise; it asks for the status once; a   *)
(* data point missing from the reply prints no line for it, and the run    *)
(* still returns True.                                                     *)
C10_ConnectionReturnsBoolean ==
    run.op = "test_connection" =>
        LET res == run.result
            reply == run.reply
        IN  /\ ~res.raised
            /\ res.ret \in BOOLEAN
            /\ res.ret = FALSE <=>
                  \/ reply.kind = "raise"
                  \/ reply.kind = "none"
                  \/ (reply.kind = "dict" /\ reply.data = EmptyDict)
                  \/ ErrorReport(reply)
                  \/ DecodeFails(reply)
            /\ Cardinality(StatusCalls(res.log)) = 1
            /\ CarriesDps(reply) =>
                  \A k \in DataPoints :
                      k \notin DOMAIN reply.data["dps"]
                          => ~Printed(res.out, LabelOf(k))
            /\ (CarriesDps(reply) /\ ~DecodeFails(reply)) =>
                  \A k \in DataPoints :
                      k \in DOMAIN reply.data["dps"]
                          => Printed(res.out, LabelOf(k))

-----------------------------------------------------------------------------
(* All the threads of the server at work.                                  *)

ConcurrentNext ==
    \E t \in Threads :
        \/ Accept(t)
        \/ Begin(t)
        \/ Return(t)
        \/ Send(t)

ConcurrentSpec == Init /\ [][ConcurrentNext]_vars

Answered(t) == threads[t].pc = "done"

\* the thread's handler has called the audible library
Called(t) ==
    threads[t].pc = "calling" \/ (Answered(t) /\ threads[t].reply # NotAsked)

\* Read off the request itself: whether the shared-secret check admits it,
\* whether the configured key opens every token it carries, and the
\* plaintext a token was made of

Admitted(r) ==
    API_SECRET = "" \/ Get(r.headers, "X-API-Secret", "") = API_SECRET

Opens(r) ==
    \A k \in DOMAIN r.body.data :
        r.body.data[k].kind = "fernet"
            => r.body.data[k].key = config.ENCRYPTION_KEY

Locale(r) == Get(r.body.data, "country_code", "us")

\* the credentials the audible library is called with are those of the
\* thread's own request: its email and password, or the plaintext of its
\* own tokens
OwnCredentials(t) ==
    LET r == threads[t].req
        c == threads[t].carried
    IN  CASE r.endpoint = "auth" ->
               c = [username |-> r.body.data["email"].text,
                    password |-> r.body.data["password"].text,
                    locale |-> Locale(r)]
          [] r.endpoint \in {"library", "progress"} ->
               c = [access_token |-> r.body.data["access_token"].pt,
                    refresh_token |-> r.body.data["refresh_token"].pt,
                    locale |-> Locale(r)]
          [] r.endpoint = "refresh-token" ->
               c = [access_token |-> "",
                    refresh_token |-> r.body.data["refresh_token"].pt,
                    locale |-> Locale(r)]

\* the response is the answer to the thread's own request, own upstream
\* reply and own draws: the status they call for, and in it what the reply
\* and the draws hold
OwnAnswer(t) ==
    LET r == threads[t].req
        reply == threads[t].reply
        rnd == threads[t].rnd
        a == threads[t].resp
    IN
    IF r.endpoint = "health"
    THEN a.status = 200 /\ a.json.timestamp = rnd.now
    ELSE IF ~Admitted(r) THEN a.status = 401 /\ reply = NotAsked
    ELSE IF ~Opens(r) THEN a.status = 500 /\ reply = NotAsked
    ELSE
    CASE reply.kind = "unauthorized" ->
           a.status = 401 /\ Get(a.json, "needs_auth", FALSE)
      [] reply.kind = "bad_request" -> a.status = 400
      [] reply.kind = "error" ->
           a.status = 500 /\ a.json.error = <<PrefixOf(r.endpoint), reply.msg>>
      [] reply.kind = "ok" /\ r.endpoint = "auth" ->
           /\ a.status = 200
           /\ a.json.access_token.pt = reply.access_token
           /\ a.json.access_token.stamp = rnd.s1
           /\ a.json.refresh_token.pt = reply.refresh_token
           /\ a.json.refresh_token.stamp = rnd.s2
           /\ a.json.expires_at = rnd.now + TokenLifetime
      [] reply.kind = "ok" /\ r.endpoint = "library" ->
           /\ a.status = 200
           /\ a.json.total_count = Len(reply.json["items"])
      [] reply.kind = "ok" /\ r.endpoint = "progress" ->
           IF Len(reply.json["items"]) = 0 THEN a.status = 404
           ELSE a.status = 200 /\ a.json.asin = r.asin
      [] reply.kind = "ok" /\ r.endpoint = "refresh-token" ->
           /\ a.status = 200
           /\ a.json.access_token.pt = reply.access_token
           /\ a.json.access_token.stamp = rnd.s1
           /\ a.json.expires_at = rnd.now + TokenLifetime
      [] reply.kind = "not_asked" -> FALSE

\* two requests equal in header, body, upstream reply and draws are
\* answered alike, whatever else was in flight
SameInSameOut ==
    \A t, u \in Threads :
        (Answered(t) /\ Answered(u)
            /\ threads[t].req = threads[u].req
            /\ threads[t].reply = threads[u].reply
            /\ threads[t].rnd = threads[u].rnd)
          => threads[t].resp = threads[u].resp

\* no step of any thread writes the start-up configuration or alters the
\* response of another request
NothingShared ==
    /\ API_SECRET' = API_SECRET
    /\ config' = config
    /\ \A t \in Threads :
          (Answered(t) /\ threads'[t].pc = "done")
              => threads'[t].resp = threads[t].resp

(* C12 as stated: the response to a request depends only on its header and *)
(* body, the start-up configuration and the upstream's reply to it, so two *)
(* requests equal in these get equal responses.                            *)
C12_DependsOnlyOnRequest ==
    \A t, u \in Threads :
        (Answered(t) /\ Answered(u)
            /\ threads[t].req = threads[u].req
            /\ threads[t].reply = threads[u].reply)
          => threads[t].resp = threads[u].resp

(* C12: no handler writes API_SECRET, the cipher key or PORT, and a thread *)
(* keeps nothing of a request it has answered; under any interleaving the  *)
(* audible library is called with the credentials of the request being     *)
(* handled, and the response to a request is the answer to its own header  *)
(* and body under the start-up configuration, to the upstream's reply to   *)
(* it and to the clock reading and IV it draws, the same for two requests  *)
(* equal in these, whatever the other requests in flight are.              *)
C12_Stateless ==
    /\ [](config = StartUp)
    /\ [](\A t \in Threads : Called(t) => OwnCredentials(t))
    /\ [](\A t \in Threads : Answered(t) => OwnAnswer(t))
    /\ []SameInSameOut
    /\ [](\A t \in Threads : threads[t].pc = "idle" => threads[t] = IdleThread)
    /\ [][NothingShared]_vars

\* two requests in flight together, each answered from the upstream's reply
\* to a call made with its own credentials
C12_Witness ==
    /\ API_SECRET = "s3cret"
    /\ Answered(1)
    /\ threads[1].req.endpoint = "auth"
    /\ threads[1].resp.status = 200
    /\ threads[1].carried.username = "a@b.com"
    /\ Answered(2)
    /\ threads[2].req.endpoint = "library"
    /\ threads[2].resp.status = 200
    /\ threads[2].resp.json.total_count = 1
    /\ threads[2].carried.access_token = "atk-0"

====
